---- MODULE Spec2Model ----
(***************************************************************************)
(* Model of src/backend/server.js, the mail-tracker event store: the two   *)
(* in-memory views (trackedEmails, openedEmails), the two append-only text *)
(* logs (tracked_emails.txt, opened_emails.txt) and the request handlers   *)
(* that act on them.                                                       *)
(*                                                                         *)
(* Node runs one handler at a time until it awaits; every action below is  *)
(* one such synchronous run: the part of a handler from its arrival to its *)
(* first await, the completion of a file operation in the I/O pool, or the *)
(* part of a handler that runs after an await resumes.  File operations of *)
(* different requests complete in any order.                               *)
(***************************************************************************)
EXTENDS Integers, Sequences, FiniteSets, TLC

\* Number of request handlers that can be in flight at the same time.
MaxReq == 2
\* Number of records stored over a run: each stored record takes the next
\* value of the clock as its timestamp.
MaxClock == 3

Slots == 1..MaxReq

\* The value a JavaScript property read gives for a missing property.
Undef == "undefined"

Ids == {"a", "b"}
IPs == {"ip1", "ip2"}
UserAgents == {"ua1", "ua2"}

\* Requests of GET /track/:trackingId: <<trackingId, client IP, User-Agent>>.
\* Two share the pair (a, ip1) and differ in the user agent, one comes from
\* another IP, one asks for another id.
Opens ==
    { <<"a", "ip1", "ua1">>, <<"a", "ip1", "ua2">>, <<"a", "ip2", "ua1">>,
      <<"b", "ip1", "ua1">> }

\* Request bodies of POST /api/track: two valid ones (with and without a
\* recipient), one with an empty id, one without id.
Bodies ==
    { [id |-> "a", recipient |-> "r@x"],
      [id |-> "b", recipient |-> Undef],
      [id |-> "",  recipient |-> "r@x"],
      [id |-> Undef, recipient |-> Undef] }

\* Authorization headers of DELETE /api/clear: absent, mismatched, valid.
AuthHeaders == {Undef, "Bearer wrong", "Bearer clear-data-secret"}

Envs == {"development", "production"}

VARIABLES
    trackedEmails,  \* sent view: sequence of sent records
    openedEmails,   \* open view: sequence of open records
    trackedFile,    \* content of tracked_emails.txt: sequence of tokens
    openedFile,     \* content of opened_emails.txt: sequence of tokens
    reqs,           \* per slot: the handler running there and its position
    resp,           \* the response the last step sent, if it sent one
    clock,          \* the wall clock read by new Date()
    nodeEnv         \* NODE_ENV of the process

vars == <<trackedEmails, openedEmails, trackedFile, openedFile, reqs, resp,
          clock, nodeEnv>>

-----------------------------------------------------------------------------
(* Serialisation: JSON.stringify, String.split, JSON.parse.  A text is a     *)
(* sequence of tokens: an opening brace, one token per "key":value pair, a   *)
(* closing brace, a line feed.                                               *)

LBrace == <<"{">>
RBrace == <<"}">>
NL == <<"\n">>

\* Property order of a stored tracking record and of openData.
SentKeys == <<"id", "recipient", "serverTimestamp">>
OpenKeys == <<"trackingId", "recipient", "openedAt", "userAgent", "ipAddress">>
\* The properties whose value can be undefined.
OptionalKeys == {"recipient"}

Range(s) == {s[i] : i \in DOMAIN s}

\* JSON.stringify(email): a property whose value is undefined is left out.
Stringify(email, keys) ==
    LET present == SelectSeq(keys, LAMBDA k :
                       ~(k \in OptionalKeys /\ email[k] = Undef))
    IN  <<LBrace>> \o [i \in DOMAIN present |-> <<present[i], email[present[i]]>>]
                   \o <<RBrace>>

\* The line written without its line feed.
Line_NoNewline(email, keys) == Stringify(email, keys)

\* const line = JSON.stringify(email) + '\n'
Line(email, keys) == Stringify(email, keys) \o <<NL>>

\* text.split('\n'): the pieces between line feeds, the last one included.
RECURSIVE Split(_)
Split(text) ==
    LET nls == {j \in DOMAIN text : text[j] = NL}
    IN  IF nls = {} THEN <<text>>
        ELSE LET j == CHOOSE k \in nls : \A m \in nls : k <= m
             IN  <<SubSeq(text, 1, j - 1)>> \o Split(SubSeq(text, j + 1, Len(text)))

\* JSON.parse(line) does not throw: one object, braces balanced, pairs inside.
ParsesOK(line) ==
    /\ Len(line) >= 2
    /\ line[1] = LBrace
    /\ line[Len(line)] = RBrace
    /\ \A i \in 2..(Len(line) - 1) : Len(line[i]) = 2

\* JSON.parse(line), read through its properties: a missing one reads undefined.
ParseLine(line, keys) ==
    [k \in Range(keys) |->
        IF \E i \in 2..(Len(line) - 1) : line[i][1] = k
        THEN line[CHOOSE i \in 2..(Len(line) - 1) : line[i][1] = k][2]
        ELSE Undef]

\* The load giving up on the whole file at the first line that fails to parse.
LoadFile_AllOrNothing(text, keys) ==
    LET lines == SelectSeq(Split(text), LAMBDA l : l # <<>>)
    IN  IF \A i \in DOMAIN lines : ParsesOK(lines[i])
        THEN [i \in DOMAIN lines |-> ParseLine(lines[i], keys)]
        ELSE <<>>

\* data.split('\n').filter(line => line.trim()).map(parse or null)
\*     .filter(item => item !== null)
LoadFile(text, keys) ==
    LET lines == SelectSeq(Split(text), LAMBDA l : l # <<>>)
        good  == SelectSeq(lines, ParsesOK)
    IN  [i \in DOMAIN good |-> ParseLine(good[i], keys)]

\* How a file operation can settle: done; failed with the file as it was;
\* for an append, failed with the start of the line written.
Outcomes == {"ok", "err"}
Crashes == {"partial"}

\* The line written at the start of the file.
Appended_AtStart(text, line, outcome) ==
    IF outcome = "ok" THEN line \o text ELSE text

\* What fs.appendFile(file, line) leaves in the file.
Appended(text, line, outcome) ==
    CASE outcome = "ok"      -> text \o line
      [] outcome = "err"     -> text
      [] outcome = "partial" -> text \o SubSeq(line, 1, 2)

\* A truncation that reports success and leaves the file as it was.
Truncated_Kept(text, outcome) == text

\* What fs.writeFile(file, '') leaves in the file.
Truncated(text, outcome) == IF outcome = "ok" THEN <<>> ELSE text

-----------------------------------------------------------------------------
(* The tests the handlers make.                                              *)

\* The test with the empty string let through.
Truthy_EmptyAllowed(v) == v # Undef

\* !trackingData.id
Truthy(v) == v # Undef /\ v # ""

\* trackedEmails.find(email => email.id === trackingId) finds one
IsTracked(trackingId) ==
    \E i \in DOMAIN trackedEmails : trackedEmails[i].id = trackingId

\* trackedEmails.find(email => email.id === trackingId): the first match
FindTracked(trackingId) ==
    trackedEmails[CHOOSE i \in DOMAIN trackedEmails :
        /\ trackedEmails[i].id = trackingId
        /\ \A j \in 1..(i - 1) : trackedEmails[j].id # trackingId]

\* The dedup test with the user agent taken into the key.
AlreadyOpened_WithUserAgent(trackingId, clientIP, userAgent) ==
    \E i \in DOMAIN openedEmails :
        /\ openedEmails[i].trackingId = trackingId
        /\ openedEmails[i].ipAddress = clientIP
        /\ openedEmails[i].userAgent = userAgent

\* openedEmails.find(email => email.trackingId === trackingId &&
\*                            email.ipAddress === clientIP)
AlreadyOpened(trackingId, clientIP, userAgent) ==
    \E i \in DOMAIN openedEmails :
        /\ openedEmails[i].trackingId = trackingId
        /\ openedEmails[i].ipAddress = clientIP

\* The credential asked for in every mode.
Unauthorized_AnyMode(authHeader) ==
    authHeader = Undef \/ authHeader # "Bearer clear-data-secret"

\* NODE_ENV === 'production' && (!authHeader || authHeader !== 'Bearer ...')
Unauthorized(authHeader) ==
    nodeEnv = "production"
        /\ (authHeader = Undef \/ authHeader # "Bearer clear-data-secret")

-----------------------------------------------------------------------------
(* Request slots.  A slot holds the handler that awaits a file operation:    *)
(* op, the handler; pc, the operation it awaits ("append", or for clear      *)
(* "truncate1" then "truncate2"); rec, the record the handler built and is   *)
(* appending (for clear, the Authorization header it came with).  A step is  *)
(* one synchronous run of a handler: from the arrival of the request to its  *)
(* first await, or from the settling of the awaited file operation to the    *)
(* next await or to the response.                                            *)

NoRec == [none |-> TRUE]
NoArg == [none |-> TRUE]

IdleSlot == [op |-> "idle", pc |-> "idle", rec |-> NoRec]

\* A response: op, the endpoint; arg, the request's input; status; out, the
\* part of the body the callers read.
NoResp == [op |-> "none", arg |-> NoArg, status |-> "none", out |-> "none"]

Response(op, arg, status, out) ==
    [op |-> op, arg |-> arg, status |-> status, out |-> out]

InFlight(r) == reqs[r].pc # "idle"

\* No handler awaits a file operation.
Quiet == \A r \in Slots : reqs[r].pc = "idle"

\* The last stamp of the clock: MaxClock for a request taken while another is
\* in flight, one more for a request taken with none in flight.
ClockLimit == IF Quiet THEN MaxClock + 1 ELSE MaxClock

\* Line 8 and lines 57-58, with no log file on disk yet (lines 89-91, 104-106).
InitEnv(envs) ==
    /\ trackedEmails = <<>>
    /\ openedEmails = <<>>
    /\ trackedFile = <<>>
    /\ openedFile = <<>>
    /\ reqs = [r \in Slots |-> IdleSlot]
    /\ resp = NoResp
    /\ clock = 0
    /\ nodeEnv \in envs

\* The process runs in production mode, where DELETE /api/clear asks for the
\* Authorization header: a run in another mode is a production run in which
\* every clear request that gets through came with the valid header.
Init == InitEnv({"production"})

\* The process runs in either mode.
InitAnyEnv == InitEnv(Envs)

-----------------------------------------------------------------------------
(* POST /api/track                                                           *)

\* The handler answering success without awaiting saveTrackedEmail.
TrackArrive_NoAwait(r, body) ==
    /\ reqs[r].pc = "idle"
    /\ IF ~Truthy(body.id)
       THEN /\ resp' = Response("track", body, "400", "Invalid tracking data")
            /\ UNCHANGED <<trackedEmails, reqs, clock>>
       ELSE /\ clock < ClockLimit
            /\ LET trackingData == [id |-> body.id, recipient |-> body.recipient,
                                    serverTimestamp |-> clock + 1]
               IN  /\ trackedEmails' = Append(trackedEmails, trackingData)
                   /\ reqs' = [reqs EXCEPT ![r] =
                          [op |-> "track", pc |-> "append", rec |-> trackingData]]
            /\ clock' = clock + 1
            /\ resp' = Response("track", NoArg, "200", body.id)
    /\ UNCHANGED <<openedEmails, trackedFile, openedFile, nodeEnv>>

\* Lines 174-186, to the await of saveTrackedEmail.  The clientIP stamped at
\* line 183 is read by no handler and is left out of the record.
TrackArrive(r, body) ==
    /\ reqs[r].pc = "idle"
    /\ IF ~Truthy(body.id)
       THEN /\ resp' = Response("track", body, "400", "Invalid tracking data")
            /\ UNCHANGED <<trackedEmails, reqs, clock>>
       ELSE /\ clock < ClockLimit
            /\ LET trackingData == [id |-> body.id, recipient |-> body.recipient,
                                    serverTimestamp |-> clock + 1]
               IN  /\ trackedEmails' = Append(trackedEmails, trackingData)
                   /\ reqs' = [reqs EXCEPT ![r] =
                          [op |-> "track", pc |-> "append", rec |-> trackingData]]
            /\ clock' = clock + 1
            /\ resp' = NoResp
    /\ UNCHANGED <<openedEmails, trackedFile, openedFile, nodeEnv>>

\* Lines 113-120 and 188-194: fs.appendFile(TRACKED_EMAILS_FILE, line) settles
\* (a failure is caught and logged), the handler resumes and answers.
TrackSaved(r, outcome) ==
    /\ reqs[r].op = "track" /\ reqs[r].pc = "append"
    /\ trackedFile' = Appended(trackedFile, Line(reqs[r].rec, SentKeys), outcome)
    /\ resp' = Response("track", NoArg, "200", reqs[r].rec.id)
    /\ reqs' = [reqs EXCEPT ![r] = IdleSlot]
    /\ UNCHANGED <<trackedEmails, openedEmails, openedFile, clock, nodeEnv>>

-----------------------------------------------------------------------------
(* GET /track/:trackingId                                                    *)

\* The pixel endpoint answering a failed save with an error status.
PixelStatus_ErrorOnFailure(outcome) == IF outcome = "failed" THEN "500" ELSE "pixel"

\* Lines 254-269: the response of the pixel endpoint, whatever happened.
PixelStatus(outcome) == "pixel"

OpenArg(trackingId, clientIP, userAgent) ==
    [trackingId |-> trackingId, ip |-> clientIP, userAgent |-> userAgent]

\* The handler storing the open whether or not the id is tracked.
OpenArrive_Permissive(r, trackingId, clientIP, userAgent) ==
    /\ reqs[r].pc = "idle"
    /\ IF AlreadyOpened(trackingId, clientIP, userAgent)
       THEN /\ resp' = Response("open", OpenArg(trackingId, clientIP, userAgent),
                                PixelStatus("duplicate"), "duplicate")
            /\ UNCHANGED <<openedEmails, reqs, clock>>
       ELSE /\ clock < ClockLimit
            /\ LET openData == [trackingId |-> trackingId,
                                recipient |-> IF IsTracked(trackingId)
                                              THEN FindTracked(trackingId).recipient
                                              ELSE Undef,
                                openedAt |-> clock + 1,
                                userAgent |-> userAgent,
                                ipAddress |-> clientIP]
               IN  /\ openedEmails' = Append(openedEmails, openData)
                   /\ reqs' = [reqs EXCEPT ![r] =
                          [op |-> "open", pc |-> "append", rec |-> openData]]
            /\ clock' = clock + 1
            /\ resp' = NoResp
    /\ UNCHANGED <<trackedEmails, trackedFile, openedFile, nodeEnv>>

\* Lines 203-237, to the await of saveOpenedEmail; lines 244-269 when the
\* handler does not await.
OpenArrive(r, trackingId, clientIP, userAgent) ==
    /\ reqs[r].pc = "idle"
    /\ IF ~IsTracked(trackingId)
       THEN /\ resp' = Response("open", OpenArg(trackingId, clientIP, userAgent),
                                PixelStatus("notfound"), "notfound")
            /\ UNCHANGED <<openedEmails, reqs, clock>>
       ELSE IF AlreadyOpened(trackingId, clientIP, userAgent)
       THEN /\ resp' = Response("open", OpenArg(trackingId, clientIP, userAgent),
                                PixelStatus("duplicate"), "duplicate")
            /\ UNCHANGED <<openedEmails, reqs, clock>>
       ELSE /\ clock < ClockLimit
            /\ LET openData == [trackingId |-> trackingId,
                                recipient |-> FindTracked(trackingId).recipient,
                                openedAt |-> clock + 1,
                                userAgent |-> userAgent,
                                ipAddress |-> clientIP]
               IN  /\ openedEmails' = Append(openedEmails, openData)
                   /\ reqs' = [reqs EXCEPT ![r] =
                          [op |-> "open", pc |-> "append", rec |-> openData]]
            /\ clock' = clock + 1
            /\ resp' = NoResp
    /\ UNCHANGED <<trackedEmails, trackedFile, openedFile, nodeEnv>>

\* The save taking the record back out of the open view when the append fails.
OpenSaved_Rollback(r, outcome) ==
    /\ reqs[r].op = "open" /\ reqs[r].pc = "append"
    /\ openedFile' = Appended(openedFile, Line(reqs[r].rec, OpenKeys), outcome)
    /\ openedEmails' = IF outcome = "ok" THEN openedEmails
                       ELSE SelectSeq(openedEmails, LAMBDA e : e # reqs[r].rec)
    /\ LET result == IF outcome = "ok" THEN "new" ELSE "failed"
       IN  resp' = Response("open", NoArg, PixelStatus(result), result)
    /\ reqs' = [reqs EXCEPT ![r] = IdleSlot]
    /\ UNCHANGED <<trackedEmails, trackedFile, clock, nodeEnv>>

\* Lines 122-129 and 238-269: fs.appendFile(OPENED_EMAILS_FILE, line) settles
\* (a failure is caught and logged), the handler resumes and sends the pixel.
OpenSaved(r, outcome) ==
    /\ reqs[r].op = "open" /\ reqs[r].pc = "append"
    /\ openedFile' = Appended(openedFile, Line(reqs[r].rec, OpenKeys), outcome)
    /\ LET result == IF outcome = "ok" THEN "new" ELSE "failed"
       IN  resp' = Response("open", NoArg, PixelStatus(result), result)
    /\ reqs' = [reqs EXCEPT ![r] = IdleSlot]
    /\ UNCHANGED <<trackedEmails, openedEmails, trackedFile, clock, nodeEnv>>

-----------------------------------------------------------------------------
(* DELETE /api/clear                                                         *)

\* The reset emptying the sent view only.
ClearedViews_SentOnly(tracked, opened) == <<<<>>, opened>>

\* Lines 389-390: what the two views become.
ClearedViews(tracked, opened) == <<<<>>, <<>>>>

\* The handler emptying the sent view and leaving the open view.
ClearArrive_KeepsOpens(r, authHeader) ==
    /\ reqs[r].pc = "idle"
    /\ IF Unauthorized(authHeader)
       THEN /\ resp' = Response("clear", [authorization |-> authHeader], "401",
                                "Unauthorized")
            /\ UNCHANGED <<trackedEmails, reqs>>
       ELSE /\ trackedEmails' = <<>>
            /\ reqs' = [reqs EXCEPT ![r] =
                   [op |-> "clear", pc |-> "truncate1",
                    rec |-> [authorization |-> authHeader]]]
            /\ resp' = NoResp
    /\ UNCHANGED <<openedEmails, trackedFile, openedFile, clock, nodeEnv>>

\* Lines 381-392, to the await of the first fs.writeFile.
ClearArrive(r, authHeader) ==
    /\ reqs[r].pc = "idle"
    /\ IF Unauthorized(authHeader)
       THEN /\ resp' = Response("clear", [authorization |-> authHeader], "401",
                                "Unauthorized")
            /\ UNCHANGED <<trackedEmails, openedEmails, reqs>>
       ELSE /\ trackedEmails' = ClearedViews(trackedEmails, openedEmails)[1]
            /\ openedEmails' = ClearedViews(trackedEmails, openedEmails)[2]
            /\ reqs' = [reqs EXCEPT ![r] =
                   [op |-> "clear", pc |-> "truncate1",
                    rec |-> [authorization |-> authHeader]]]
            /\ resp' = NoResp
    /\ UNCHANGED <<trackedFile, openedFile, clock, nodeEnv>>

\* fs.writeFile(TRACKED_EMAILS_FILE, '') settles: line 393, to the await of the
\* second fs.writeFile, or lines 397-399 when it failed.
ClearTruncated1(r, outcome) ==
    /\ reqs[r].op = "clear" /\ reqs[r].pc = "truncate1"
    /\ outcome \in {"ok", "err"}
    /\ trackedFile' = Truncated(trackedFile, outcome)
    /\ IF outcome = "ok"
       THEN /\ reqs' = [reqs EXCEPT ![r].pc = "truncate2"]
            /\ resp' = NoResp
       ELSE /\ reqs' = [reqs EXCEPT ![r] = IdleSlot]
            /\ resp' = Response("clear", NoArg, "500", "error")
    /\ UNCHANGED <<trackedEmails, openedEmails, openedFile, clock, nodeEnv>>

\* fs.writeFile(OPENED_EMAILS_FILE, '') settles: lines 395-396, or lines
\* 397-399 when it failed.
ClearTruncated2(r, outcome) ==
    /\ reqs[r].op = "clear" /\ reqs[r].pc = "truncate2"
    /\ outcome \in {"ok", "err"}
    /\ openedFile' = Truncated(openedFile, outcome)
    /\ resp' = IF outcome = "ok"
               THEN Response("clear", NoArg, "200", "All data cleared")
               ELSE Response("clear", NoArg, "500", "error")
    /\ reqs' = [reqs EXCEPT ![r] = IdleSlot]
    /\ UNCHANGED <<trackedEmails, openedEmails, trackedFile, clock, nodeEnv>>

-----------------------------------------------------------------------------
(* The responses of the read endpoints, computed in one synchronous run from *)
(* the views as they are.                                                    *)

\* The count of all the opens in place of the distinct trackingIds.
UniqueOpens_AllOpens(opened) == Len(opened)

\* new Set(openedEmails.map(email => email.trackingId)).size
UniqueOpens(opened) == Cardinality({opened[i].trackingId : i \in DOMAIN opened})

\* ((num / den) * 100).toFixed(2): the decimal string of the percentage
\* rounded to two decimals (the nearer hundredth, the larger of two equally
\* near), kept as its number of hundredths.
ToFixed2(num, den) ==
    [kind |-> "string", hundredths |-> (2 * 10000 * num + den) \div (2 * den)]

\* The number 0 of the other branch of the conditional.
NumberZero == [kind |-> "number", hundredths |-> 0]

\* Lines 320-326.
StatsOf(tracked, opened) ==
    [totalTracked |-> Len(tracked),
     totalOpened  |-> Len(opened),
     uniqueOpened |-> UniqueOpens(opened),
     openRate     |-> IF Len(tracked) > 0
                      THEN ToFixed2(UniqueOpens(opened), Len(tracked))
                      ELSE NumberZero]

Stats == StatsOf(trackedEmails, openedEmails)

\* GET /api/stats
StatsArrive(r) ==
    /\ reqs[r].pc = "idle"
    /\ resp' = Response("stats", NoArg, "200", Stats)
    /\ UNCHANGED <<trackedEmails, openedEmails, trackedFile, openedFile, reqs,
                   clock, nodeEnv>>

-----------------------------------------------------------------------------
(* GET /api/report                                                           *)

\* null; a value v that can be null is kept as <<v>>.
Null == <<>>

\* The filter forgotten: every open counted for every sent record.
OpensOf_AnyId(opened, id) == opened

\* openedEmails.filter(opened => opened.trackingId === email.id)
OpensOf(opened, id) == SelectSeq(opened, LAMBDA o : o.trackingId = id)

\* The entry flagged opened as soon as any record was opened.
ReportEntry_OpenedByAny(email, opened) ==
    LET opens == OpensOf(opened, email.id)
    IN  [id            |-> email.id,
         recipient     |-> email.recipient,
         opened        |-> Len(opened) > 0,
         openCount     |-> Len(opens),
         firstOpenedAt |-> IF Len(opens) > 0 THEN <<opens[1].openedAt>> ELSE Null,
         lastOpenedAt  |-> IF Len(opens) > 0
                           THEN <<opens[Len(opens)].openedAt>> ELSE Null,
         openedFrom    |-> IF Len(opens) > 0 THEN <<opens[1].userAgent>> ELSE Null]

\* Lines 354-367: the entry of one sent record.  sentAt (358) copies a client
\* property no handler reads and is left out.
ReportEntry(email, opened) ==
    LET opens == OpensOf(opened, email.id)
    IN  [id            |-> email.id,
         recipient     |-> email.recipient,
         opened        |-> Len(opens) > 0,
         openCount     |-> Len(opens),
         firstOpenedAt |-> IF Len(opens) > 0 THEN <<opens[1].openedAt>> ELSE Null,
         lastOpenedAt  |-> IF Len(opens) > 0
                           THEN <<opens[Len(opens)].openedAt>> ELSE Null,
         openedFrom    |-> IF Len(opens) > 0 THEN <<opens[1].userAgent>> ELSE Null]

\* openedEmails.slice(-20).reverse()
RecentActivity(opened) ==
    LET last == SubSeq(opened, IF Len(opened) > 20 THEN Len(opened) - 19 ELSE 1,
                       Len(opened))
    IN  [i \in DOMAIN last |-> last[Len(last) + 1 - i]]

\* Lines 344-369.
ReportOf(tracked, opened) ==
    [summary        |-> StatsOf(tracked, opened),
     trackedEmails  |-> [i \in DOMAIN tracked |-> ReportEntry(tracked[i], opened)],
     recentActivity |-> RecentActivity(opened)]

Report == ReportOf(trackedEmails, openedEmails)

\* The entry of the i-th sent record in the report of the present views.
Entry(i) == ReportEntry(trackedEmails[i], openedEmails)

\* GET /api/report
ReportArrive(r) ==
    /\ reqs[r].pc = "idle"
    /\ resp' = Response("report", NoArg, "200", Report)
    /\ UNCHANGED <<trackedEmails, openedEmails, trackedFile, openedFile, reqs,
                   clock, nodeEnv>>

-----------------------------------------------------------------------------
\* Lines 76-110 and 426-429: the process ends (whatever was in flight is lost)
\* and starts again, loading both views from the logs.
Restart ==
    /\ trackedEmails' = LoadFile(trackedFile, SentKeys)
    /\ openedEmails' = LoadFile(openedFile, OpenKeys)
    /\ reqs' = [r \in Slots |-> IdleSlot]
    /\ resp' = NoResp
    /\ UNCHANGED <<trackedFile, openedFile, clock, nodeEnv>>

\* Lines 79-91 or 94-106, one file of loadData: the view of a starting process
\* is [] (57-58) and stays so when fs.readFile rejects, the file missing.
LoadOne(text, keys, outcome) ==
    IF outcome = "ok" THEN LoadFile(text, keys) ELSE <<>>

\* Lines 76-110 and 426-429: the process starts and loads each view from its
\* log, each read succeeding or not; what it logs of the two loads (88-90,
\* 103-105) is kept as the response.
Reload(outcomeT, outcomeO) ==
    /\ trackedEmails' = LoadOne(trackedFile, SentKeys, outcomeT)
    /\ openedEmails' = LoadOne(openedFile, OpenKeys, outcomeO)
    /\ reqs' = [r \in Slots |-> IdleSlot]
    /\ resp' = Response("load", [tracked |-> outcomeT, opened |-> outcomeO],
                        "started", "loaded")
    /\ UNCHANGED <<trackedFile, openedFile, clock, nodeEnv>>

\* The response leaves: the event loop takes the next event only when the
\* handler's synchronous run, res.json or res.send included, has ended.
Flush ==
    /\ resp # NoResp
    /\ resp' = NoResp
    /\ UNCHANGED <<trackedEmails, openedEmails, trackedFile, openedFile, reqs,
                   clock, nodeEnv>>

\* A request is taken by the first free slot.
FirstFree(r) == reqs[r].pc = "idle" /\ \A q \in 1..(r - 1) : reqs[q].pc # "idle"

\* The ingestion requests.
Ingest(r) ==
    /\ resp = NoResp
    /\ FirstFree(r)
    /\ \/ \E body \in Bodies : TrackArrive(r, body)
       \/ \E o \in Opens : OpenArrive(r, o[1], o[2], o[3])

\* The read requests.
Read(r) ==
    /\ resp = NoResp
    /\ FirstFree(r)
    /\ (StatsArrive(r) \/ ReportArrive(r))

\* The bulk-clear request.
Clear(r) ==
    /\ resp = NoResp
    /\ FirstFree(r)
    /\ \E h \in AuthHeaders : ClearArrive(r, h)

\* An append of an ingestion request settles.
Saved(r, outcome) ==
    /\ resp = NoResp
    /\ \/ TrackSaved(r, outcome)
       \/ OpenSaved(r, outcome)

\* A truncation of a bulk-clear request settles.
Cleared(r, outcome) ==
    /\ resp = NoResp
    /\ \/ ClearTruncated1(r, outcome)
       \/ ClearTruncated2(r, outcome)

\* Any interleaving of requests in one run of the process, file operations
\* settling in any order and failing or not.
\* Requests taken and file operations settling in any order, MaxClock stamps
\* given out.
Next ==
    \/ \E r \in Slots : (Ingest(r) /\ clock' <= MaxClock) \/ Read(r) \/ Clear(r)
    \/ \E r \in Slots, outcome \in Outcomes : Saved(r, outcome) \/ Cleared(r, outcome)
    \/ Flush

Spec == Init /\ [][Next]_vars

\* The same with no file operation failing.
NextReliable ==
    \/ \E r \in Slots : (Ingest(r) /\ clock' <= MaxClock) \/ Read(r) \/ Clear(r)
    \/ \E r \in Slots : Saved(r, "ok") \/ Cleared(r, "ok")
    \/ Flush

SpecReliable == Init /\ [][NextReliable]_vars


\* One request at a time: a request arrives only when no handler awaits a
\* file operation.  File operations fail or not; the process may restart.
NextSeq ==
    \/ \E r \in Slots : Quiet /\ (Ingest(r) \/ Read(r) \/ Clear(r))
    \/ \E r \in Slots, outcome \in Outcomes : Saved(r, outcome) \/ Cleared(r, outcome)
    \/ Flush
    \/ resp = NoResp /\ Quiet /\ Restart

SpecSeq == Init /\ [][NextSeq]_vars

\* The same runs, the process started in either mode.
SpecAnyEnv == InitAnyEnv /\ [][NextSeq]_vars

\* Ingestion and reads only, no file operation failing, the process restarting
\* at any time.
NextReload ==
    \/ \E r \in Slots : Ingest(r) \/ Read(r)
    \/ \E r \in Slots : Saved(r, "ok")
    \/ Flush
    \/ resp = NoResp /\ Restart

SpecReload == Init /\ [][NextReload]_vars

\* The logs a starting process can find, left by earlier runs: at most
\* MaxLines pieces, each a complete line, the start of a line cut by a crash
\* (the next append then goes on the same line), an empty line or a line of
\* blanks.
MaxLines == 3

SentPieces ==
    { Appended(<<>>, Line(e, SentKeys), o) :
        e \in { [id |-> "a", recipient |-> "r@x", serverTimestamp |-> 1],
                [id |-> "b", recipient |-> Undef, serverTimestamp |-> 2] },
        o \in {"ok"} \cup Crashes }
    \cup { <<NL>>, << <<" ">>, NL >> }

OpenPieces ==
    { Appended(<<>>, Line([trackingId |-> "a", recipient |-> "r@x", openedAt |-> 3,
                          userAgent |-> "ua1", ipAddress |-> "ip1"], OpenKeys), o) :
        o \in {"ok"} \cup Crashes }

RECURSIVE Texts(_, _)
Texts(pieces, n) ==
    IF n = 0 THEN {<<>>}
    ELSE Texts(pieces, n - 1)
            \cup {t \o q : t \in Texts(pieces, n - 1), q \in pieces}

InitLoad ==
    /\ trackedEmails = <<>>
    /\ openedEmails = <<>>
    /\ trackedFile \in Texts(SentPieces, MaxLines)
    /\ openedFile \in Texts(OpenPieces, MaxLines)
    /\ reqs = [r \in Slots |-> IdleSlot]
    /\ resp = NoResp
    /\ clock = 0
    /\ nodeEnv = "production"

\* The starts of the process over such logs.
NextLoad == \/ resp = NoResp /\ \E outcomeT, outcomeO \in Outcomes :
                                   Reload(outcomeT, outcomeO)
            \/ Flush
SpecLoad == InitLoad /\ [][NextLoad]_vars

-----------------------------------------------------------------------------
(* Properties.                                                               *)

IsPrefix(s, t) == Len(s) <= Len(t) /\ SubSeq(t, 1, Len(s)) = s

\* The open view holds the pair (trackingId, ipAddress).
HasPair(trackingId, ip) ==
    \E i \in DOMAIN openedEmails :
        openedEmails[i].trackingId = trackingId /\ openedEmails[i].ipAddress = ip

\* This step sends the response of an `op` request.
Sends(op) == resp = NoResp /\ resp'.op = op

\* This step answers an `op` request in the step that takes it.
Answers(op) == Sends(op) /\ resp'.arg # NoArg

\* This step takes an ingestion request that slot r then holds, `op` awaiting
\* its append.
Accepts(r, op) == reqs[r].pc = "idle" /\ reqs'[r].op = op /\ reqs'[r].pc = "append"

\* At most one OpenRecord per (trackingId, ipAddress) pair in the open view.
NoDuplicateOpen ==
    \A i, j \in DOMAIN openedEmails :
        (/\ openedEmails[i].trackingId = openedEmails[j].trackingId
         /\ openedEmails[i].ipAddress = openedEmails[j].ipAddress) => i = j

\* C1. In every state of a run without restart the open view holds at most one
\* OpenRecord per (trackingId, ipAddress) pair, whatever the user agents of the
\* requests and however many of them are in flight; a recordOpen is rejected as
\* a duplicate only when the view holds its pair, and then changes neither the
\* open view nor the open log; an accepted recordOpen (a tracked id, a pair the
\* view does not hold, such as one from another ipAddress) adds one record
\* with its pair at the end of the open view.
C1_OpenDedup ==
    /\ []NoDuplicateOpen
    /\ [][ /\ (Sends("open") /\ resp'.out = "duplicate") =>
                /\ HasPair(resp'.arg.trackingId, resp'.arg.ip)
                /\ UNCHANGED <<openedEmails, openedFile>>
           /\ \A r \in Slots : Accepts(r, "open") =>
                /\ ~HasPair(reqs'[r].rec.trackingId, reqs'[r].rec.ipAddress)
                /\ openedEmails' = Append(openedEmails, reqs'[r].rec)
         ]_vars

\* C1 witness: the open view holds two records of one trackingId from two
\* ipAddresses, the append of one of them is still pending, and a request with
\* the pair of the pending one and another user agent has just been rejected.
C1_Witness ==
    /\ Len(openedEmails) = 2
    /\ openedEmails[1].trackingId = openedEmails[2].trackingId
    /\ openedEmails[1].ipAddress # openedEmails[2].ipAddress
    /\ resp.op = "open" /\ resp.out = "duplicate"
    /\ \E r \in Slots :
         /\ reqs[r].op = "open" /\ reqs[r].pc = "append"
         /\ reqs[r].rec.trackingId = resp.arg.trackingId
         /\ reqs[r].rec.ipAddress = resp.arg.ip
         /\ reqs[r].rec.userAgent # resp.arg.userAgent

\* C2, as claimed. A recordOpen for a trackingId with no record in the sent
\* view, its pair not in the open view, adds an OpenRecord with that
\* trackingId to the open view.
C2_UnknownIdStored ==
    [][ (/\ Answers("open")
         /\ ~IsTracked(resp'.arg.trackingId)
         /\ ~HasPair(resp'.arg.trackingId, resp'.arg.ip)) =>
            /\ Len(openedEmails') = Len(openedEmails) + 1
            /\ openedEmails'[Len(openedEmails')].trackingId = resp'.arg.trackingId
      ]_vars

\* C2, amended. A recordOpen for a trackingId with no record in the sent view
\* stores nothing: it is answered at once as not found, the open view and the
\* open log unchanged; a record enters the open view only for a trackingId the
\* sent view holds.
C2_UnknownIdIgnored ==
    [][ /\ (Sends("open") /\ resp'.out = "notfound") =>
             /\ ~IsTracked(resp'.arg.trackingId)
             /\ UNCHANGED <<openedEmails, openedFile, trackedEmails, trackedFile>>
        /\ (Answers("open") /\ ~IsTracked(resp'.arg.trackingId)) =>
             resp'.out = "notfound"
        /\ \A r \in Slots : Accepts(r, "open") => IsTracked(reqs'[r].rec.trackingId)
        /\ Len(openedEmails') > Len(openedEmails) =>
             IsTracked(openedEmails'[Len(openedEmails')].trackingId)
      ]_vars

\* C2 witness: a recordOpen for an id the sent view does not hold has been
\* answered, the sent view holding another id, the open view holding nothing
\* for the id asked.
C2_Witness ==
    /\ resp.op = "open" /\ resp.out = "notfound"
    /\ trackedEmails # <<>>
    /\ ~IsTracked(resp.arg.trackingId)
    /\ \A i \in DOMAIN openedEmails : openedEmails[i].trackingId # resp.arg.trackingId

\* C3. Every response of the open path is the tracking image: the open was
\* accepted and saved, rejected as a duplicate, the id unknown, or the append
\* to the open log failed.
C3_AlwaysPixel ==
    resp.op = "open" =>
        /\ resp.status = "pixel"
        /\ resp.out \in {"new", "duplicate", "notfound", "failed"}

\* C3 witness: the append to the open log failed, the open log lacks the
\* record the open view holds, and the image has been sent.
C3_Witness ==
    /\ resp.op = "open" /\ resp.out = "failed" /\ resp.status = "pixel"
    /\ openedEmails # <<>> /\ openedFile = <<>>

\* C4. A recordSent is rejected with status 400 exactly when its id is missing
\* or empty, and the rejection leaves both views and both logs unchanged; an
\* accepted recordSent has a non-empty id, adds one record with it at the end
\* of the sent view and nothing else, and its response returns that id.
C4_RecordSent ==
    [][ /\ (Sends("track") /\ resp'.status = "400") =>
             /\ ~(resp'.arg.id # Undef /\ resp'.arg.id # "")
             /\ UNCHANGED <<trackedEmails, openedEmails, trackedFile, openedFile>>
        /\ \A r \in Slots : Accepts(r, "track") =>
             /\ reqs'[r].rec.id \in Ids
             /\ trackedEmails' = Append(trackedEmails, reqs'[r].rec)
             /\ UNCHANGED <<openedEmails, trackedFile, openedFile>>
        /\ (Sends("track") /\ resp'.status # "400") =>
             \E r \in Slots :
                /\ reqs[r].op = "track" /\ reqs'[r].pc = "idle"
                /\ resp'.status = "200" /\ resp'.out = reqs[r].rec.id
                /\ UNCHANGED trackedEmails
                /\ Cardinality({i \in DOMAIN trackedEmails :
                                  trackedEmails[i] = reqs[r].rec}) <= 1
      ]_vars

\* C4 witness: a request with an empty id has been rejected after one with
\* id "a" was stored and answered.
C4_Witness ==
    /\ resp.op = "track" /\ resp.status = "400" /\ resp.arg.id = ""
    /\ Len(trackedEmails) = 1 /\ trackedEmails[1].id = "a"
    /\ Quiet

\* The records the sent log and the open log hold, as loadData reads them.
LoggedSent == LoadFile(trackedFile, SentKeys)
LoggedOpens == LoadFile(openedFile, OpenKeys)

\* Two sequences hold the same records, whatever their order.
SameRecords(s, t) == Len(s) = Len(t) /\ Range(s) = Range(t)

\* C5, as claimed. With no write failing, once clearAll and every ingestion
\* request overlapping it have finished, each log holds exactly the records of
\* its view.
C5_QuiescentLogsMatchViews ==
    Quiet => /\ SameRecords(LoggedSent, trackedEmails)
             /\ SameRecords(LoggedOpens, openedEmails)

\* C6, as claimed. When clearAll has reported an error, nothing was cleared:
\* every record a log still holds is still in its view, and the sent log is
\* not emptied with the open log still holding records.
C6_FailedClearChangesNothing ==
    (resp.op = "clear" /\ resp.status = "500") =>
        /\ Range(LoggedSent) \subseteq Range(trackedEmails)
        /\ Range(LoggedOpens) \subseteq Range(openedEmails)
        /\ ~(trackedFile = <<>> /\ trackedEmails = <<>> /\ openedFile # <<>>)

\* C7. When a clearAll taken with no other request in flight has answered
\* success, stats reports 0 sent and 0 opened, both logs are empty, and
\* reloading from the logs gives an empty sent view and an empty open view.
C7_ClearedIsEmpty ==
    (resp.op = "clear" /\ resp.status = "200") =>
        /\ Stats.totalTracked = 0 /\ Stats.totalOpened = 0
        /\ Stats.uniqueOpened = 0 /\ Stats.openRate.hundredths = 0
        /\ trackedEmails = <<>> /\ openedEmails = <<>>
        /\ trackedFile = <<>> /\ openedFile = <<>>
        /\ LoggedSent = <<>> /\ LoggedOpens = <<>>

\* C7 witness: clearAll has answered success after every stamp of the clock
\* was given to a stored record.
C7_Witness ==
    /\ resp.op = "clear" /\ resp.status = "200"
    /\ clock >= MaxClock
    /\ Quiet

\* Every OpenRecord of the open view has its SentRecord in the sent view.
OpensAreTracked ==
    \A i \in DOMAIN openedEmails : IsTracked(openedEmails[i].trackingId)

C9_RestartRoundTrip ==
    Quiet =>
        /\ SameRecords(LoggedSent, trackedEmails)
        /\ SameRecords(LoggedOpens, openedEmails)
        /\ StatsOf(LoggedSent, LoggedOpens) = Stats

\* C9 witness: after a restart the sent view holds two records in the order of
\* the log, which is not the order of their arrival, one of them without
\* recipient, and the open view holds a record; no append is pending.
C9_Witness ==
    /\ Quiet
    /\ Len(trackedEmails) = 2
    /\ trackedEmails[1].serverTimestamp > trackedEmails[2].serverTimestamp
    /\ \E i \in DOMAIN trackedEmails : trackedEmails[i].recipient = Undef
    /\ openedEmails # <<>>
    /\ trackedEmails = LoggedSent /\ openedEmails = LoggedOpens

\* C10. No success response before the append has completed: the step that
\* takes a recordSent or an accepted recordOpen sends no response; the success
\* reply of recordSent is sent in the step in which the append of its record
\* to the sent log settles, and the image reply of an accepted recordOpen in
\* the step in which the append of its record to the open log settles; an
\* accepted open reported as saved has its line at the end of the open log,
\* and a sent log changed by the settling append ends with the line of the
\* record.
C10_ReplyAfterAppend ==
    [][ /\ \A r \in Slots :
             (Accepts(r, "track") \/ Accepts(r, "open")) => resp' = NoResp
        /\ (Sends("track") /\ resp'.status = "200") =>
             \E r \in Slots :
                /\ reqs[r].op = "track" /\ reqs[r].pc = "append"
                /\ reqs'[r].pc = "idle"
                /\ resp'.out = reqs[r].rec.id
                /\ \/ trackedFile' = trackedFile \o Line(reqs[r].rec, SentKeys)
                   \/ trackedFile' = trackedFile
        /\ (Sends("open") /\ resp'.out \in {"new", "failed"}) =>
             \E r \in Slots :
                /\ reqs[r].op = "open" /\ reqs[r].pc = "append"
                /\ reqs'[r].pc = "idle"
                /\ IF resp'.out = "new"
                   THEN openedFile' = openedFile \o Line(reqs[r].rec, OpenKeys)
                   ELSE openedFile' = openedFile
      ]_vars

\* C10 witness: recordSent has answered success, the sent log ends with the
\* line of a record with the id answered, and an accepted recordOpen taken
\* meanwhile is still awaiting its append, unanswered.
C10_Witness ==
    /\ resp.op = "track" /\ resp.status = "200"
    /\ LoggedSent # <<>>
    /\ LoggedSent[Len(LoggedSent)].id = resp.out
    /\ \E r \in Slots : reqs[r].op = "open" /\ reqs[r].pc = "append"
    /\ openedFile = <<>>

\* The append awaited by slot r settles in this step.
Settles(r) == reqs[r].pc = "append" /\ reqs'[r].pc = "idle"

\* C11. A failed append rolls nothing back: the step in which an append
\* settles, failed or not, leaves both views as they were and answers
\* success (status 200 for recordSent, the image for recordOpen); when it
\* failed only the log lacks the record; and a recordOpen for a tracked id
\* whose pair the open view holds is rejected as a duplicate, whether or not
\* the record of that pair reached the log.
C11_NoRollbackOnFailedAppend ==
    [][ /\ \A r \in Slots : Settles(r) =>
             /\ UNCHANGED <<trackedEmails, openedEmails>>
             /\ resp'.status = IF reqs[r].op = "track" THEN "200" ELSE "pixel"
             /\ (reqs[r].op = "track" /\ trackedFile' = trackedFile) =>
                   /\ resp'.out = reqs[r].rec.id
                   /\ StatsOf(trackedEmails', openedEmails').totalTracked
                         = Len(trackedEmails)
             /\ (reqs[r].op = "open" /\ resp'.out = "failed") =>
                   /\ openedFile' = openedFile
                   /\ StatsOf(trackedEmails', openedEmails').totalOpened
                         = Len(openedEmails)
        /\ (/\ Answers("open")
            /\ IsTracked(resp'.arg.trackingId)
            /\ HasPair(resp'.arg.trackingId, resp'.arg.ip)) =>
               (resp'.out = "duplicate" /\ UNCHANGED <<openedEmails, openedFile>>)
      ]_vars

\* C11 witness: the append of an OpenRecord has just failed with nothing else
\* in flight; the open view holds the record and stats counts it, the open
\* log holds nothing, the sent log holds the SentRecord.
C11_Witness ==
    /\ resp.op = "open" /\ resp.out = "failed"
    /\ Quiet
    /\ Len(openedEmails) = 1 /\ Stats.totalOpened = 1
    /\ LoggedOpens = <<>>
    /\ Len(LoggedSent) = 1 /\ LoggedSent[1].id = openedEmails[1].trackingId

\* The distinct trackingIds of the open view.
OpenedIds == {openedEmails[i].trackingId : i \in DOMAIN openedEmails}

\* C12, as claimed. openRate equals uniqueOpened / totalSent * 100 when
\* totalSent > 0, and 0 when totalSent = 0.
C12_OpenRateExact ==
    LET n == Len(trackedEmails)
    IN  IF n > 0
        THEN Stats.openRate.hundredths * n = Cardinality(OpenedIds) * 10000
        ELSE Stats.openRate.hundredths = 0

\* C12, amended. In every state stats has totalSent = the number of records
\* of the sent view, totalOpened = the number of records of the open view,
\* uniqueOpened = the number of distinct trackingIds of the open view;
\* openRate is the number 0 when totalSent = 0, and otherwise the decimal
\* string of uniqueOpened / totalSent * 100 rounded to two decimals (within
\* half a hundredth of the quotient); a stats response carries these values
\* of the state it is sent in.
C12_StatsFromViews ==
    LET n == Len(trackedEmails)
        u == Cardinality(OpenedIds)
        h == Stats.openRate.hundredths
    IN  /\ Stats.totalTracked = n
        /\ Stats.totalOpened = Len(openedEmails)
        /\ Stats.uniqueOpened = u
        /\ n = 0 => Stats.openRate = NumberZero
        /\ n > 0 => /\ Stats.openRate.kind = "string"
                    /\ 2 * h * n <= 2 * 10000 * u + n
                    /\ 2 * h * n > 2 * 10000 * u - n
        /\ resp.op = "stats" => resp.out = Stats

\* C12 witness: stats has answered for three sent records and one id opened:
\* the rate sent is "33.33".
C12_Witness ==
    /\ resp.op = "stats"
    /\ resp.out.totalTracked = 3 /\ resp.out.uniqueOpened = 1
    /\ resp.out.openRate = [kind |-> "string", hundredths |-> 3333]

\* The ipAddresses of the OpenRecords of the open view for a trackingId.
IPsOf(trackingId) == {ip \in IPs : HasPair(trackingId, ip)}

OpenTimes(trackingId) ==
    {openedEmails[i].openedAt :
        i \in {k \in DOMAIN openedEmails : openedEmails[k].trackingId = trackingId}}

\* C14, as claimed. In every state, states reached by a restart included,
\* report gives for each sent record firstOpenedAt = the earliest and
\* lastOpenedAt = the latest openedAt among the OpenRecords with its id, hence
\* firstOpenedAt <= lastOpenedAt, and both are null exactly when openCount = 0.
C14_FirstEarliestLastLatest ==
    \A i \in DOMAIN trackedEmails :
        LET entry == Report.trackedEmails[i]
            times == OpenTimes(trackedEmails[i].id)
        IN  IF entry.openCount = 0
            THEN times = {} /\ entry.firstOpenedAt = Null /\ entry.lastOpenedAt = Null
            ELSE /\ Len(entry.firstOpenedAt) = 1 /\ Len(entry.lastOpenedAt) = 1
                 /\ entry.firstOpenedAt[1] \in times
                 /\ entry.lastOpenedAt[1] \in times
                 /\ \A t \in times : entry.firstOpenedAt[1] <= t
                 /\ \A t \in times : t <= entry.lastOpenedAt[1]

\* C15. In every state the opened flag of a sent record's entry is true
\* exactly when the open view holds an OpenRecord with its id; the entry of a
\* record just stored by recordSent for an id not sent before has the flag
\* false; and the flag of a stored record turns from false to true only in
\* the step that records a recordOpen for its id.
C15_OpenedFlag ==
    /\ [](\A i \in DOMAIN trackedEmails :
             Entry(i).opened
                <=> (\E k \in DOMAIN openedEmails :
                        openedEmails[k].trackingId = trackedEmails[i].id))
    /\ [][ /\ \A r \in Slots :
                (Accepts(r, "track") /\ ~IsTracked(reqs'[r].rec.id)) =>
                   /\ trackedEmails'[Len(trackedEmails')] = reqs'[r].rec
                   /\ ReportEntry(reqs'[r].rec, openedEmails').id = reqs'[r].rec.id
                   /\ ~ReportEntry(reqs'[r].rec, openedEmails').opened
           /\ \A i \in DOMAIN trackedEmails :
                (/\ i \in DOMAIN trackedEmails'
                 /\ trackedEmails'[i] = trackedEmails[i]
                 /\ ~Entry(i).opened
                 /\ ReportEntry(trackedEmails'[i], openedEmails').opened) =>
                   \E r \in Slots : /\ Accepts(r, "open")
                                    /\ reqs'[r].rec.trackingId = trackedEmails[i].id
         ]_vars

\* C15 witness: a report has been sent for two sent records, the first never
\* opened and flagged false, the second sent later, opened and flagged true.
C15_Witness ==
    /\ resp.op = "report"
    /\ Len(resp.out.trackedEmails) = 2
    /\ resp.out.trackedEmails[1].id # resp.out.trackedEmails[2].id
    /\ ~resp.out.trackedEmails[1].opened
    /\ resp.out.trackedEmails[2].opened
    /\ Len(openedEmails) = 1

\* C16. The bulk clear is gated in production mode only: a clearAll is
\* rejected with Unauthorized only in production mode and only for a missing
\* or mismatched credential header, and the rejection leaves both views, both
\* logs and the requests in flight unchanged; in production mode a clearAll
\* proceeds only with the matching header; in any other mode no clearAll is
\* ever rejected, whatever its header.
C16_GatedInProductionOnly ==
    /\ [](nodeEnv # "production" => resp.status # "401")
    /\ [][ /\ (Sends("clear") /\ resp'.status = "401") =>
                /\ nodeEnv = "production"
                /\ resp'.arg.authorization # "Bearer clear-data-secret"
                /\ resp'.out = "Unauthorized"
                /\ UNCHANGED <<trackedEmails, openedEmails, trackedFile,
                               openedFile, reqs>>
           /\ \A r \in Slots :
                (reqs[r].pc = "idle" /\ reqs'[r].op = "clear") =>
                   /\ nodeEnv = "production" =>
                         reqs'[r].rec.authorization = "Bearer clear-data-secret"
                   /\ trackedEmails' = <<>> /\ openedEmails' = <<>>
                   /\ resp' = NoResp
         ]_vars

\* C16 witness: outside production mode a clearAll without credential header
\* has emptied the sent view and is truncating; the sent log still holds a
\* record.
C16_Witness ==
    /\ nodeEnv # "production"
    /\ \E r \in Slots : /\ reqs[r].op = "clear"
                        /\ reqs[r].rec.authorization = Undef
    /\ trackedEmails = <<>>
    /\ LoggedSent # <<>>

\* This step takes a clearAll that goes on to truncate.
TakesClear == \E r \in Slots : reqs[r].pc = "idle" /\ reqs'[r].op = "clear"

\* This step is the settling of the truncation a clearAll awaits at `pc`.
TruncationSettles(pc) ==
    \E r \in Slots : reqs[r].op = "clear" /\ reqs[r].pc = pc /\ reqs'[r].pc # pc

\* C17. Append-only: every step leaves each view unchanged or extended by one
\* record at its end, unless it is the step that takes a clearAll, and each
\* log unchanged or extended by the line of one record at its end, unless it
\* is the settling of that log's truncation by a clearAll; the records
\* already stored are never modified, reordered or removed by recordSent,
\* recordOpen, stats or report, and the read requests change nothing.
C17_AppendOnly ==
    [][ /\ \/ TakesClear
           \/ /\ IsPrefix(trackedEmails, trackedEmails')
              /\ IsPrefix(openedEmails, openedEmails')
              /\ Len(trackedEmails') + Len(openedEmails')
                    <= Len(trackedEmails) + Len(openedEmails) + 1
        /\ \/ TruncationSettles("truncate1")
           \/ trackedFile' = trackedFile
           \/ /\ IsPrefix(trackedFile, trackedFile')
              /\ IsPrefix(LoggedSent, LoadFile(trackedFile', SentKeys))
              /\ Len(LoadFile(trackedFile', SentKeys)) = Len(LoggedSent) + 1
              /\ openedFile' = openedFile
        /\ \/ TruncationSettles("truncate2")
           \/ openedFile' = openedFile
           \/ /\ IsPrefix(openedFile, openedFile')
              /\ IsPrefix(LoggedOpens, LoadFile(openedFile', OpenKeys))
              /\ Len(LoadFile(openedFile', OpenKeys)) = Len(LoggedOpens) + 1
              /\ trackedFile' = trackedFile
        /\ (Sends("stats") \/ Sends("report")) =>
              UNCHANGED <<trackedEmails, openedEmails, trackedFile, openedFile>>
      ]_vars

\* C17 witness: with no clearAll in flight the sent view holds two records
\* and the sent log their two lines in the same order, the open view holds a
\* record whose line the open log holds, and a report has just been sent.
C17_Witness ==
    /\ resp.op = "report"
    /\ Quiet
    /\ Len(trackedEmails) = 2 /\ LoggedSent = trackedEmails
    /\ Len(openedEmails) = 1 /\ LoggedOpens = openedEmails

\* The pieces of a text between line feeds that parse, by their position.
GoodLines(text) == {i \in DOMAIN Split(text) : ParsesOK(Split(text)[i])}

\* The k-th of them.
KthGood(text, k) ==
    CHOOSE i \in GoodLines(text) :
        Cardinality({j \in GoodLines(text) : j < i}) = k - 1

\* `view` holds one record per line of `text` that parses, the record of the
\* k-th such line at place k.
KeepsGoodLines(view, text, keys) ==
    /\ Len(view) = Cardinality(GoodLines(text))
    /\ \A k \in DOMAIN view :
          view[k] = ParseLine(Split(text)[KthGood(text, k)], keys)

\* C18. A start of the process leaves in each view one record per line of its
\* log that parses, in the order of the lines, every other line (empty, blank,
\* cut short, or run into the next one) dropped without any other line lost;
\* a log that cannot be read gives an empty view; each log is loaded whatever
\* happened to the other; the logs are left as they were.
C18_LoadKeepsParsableLines ==
    [][ Sends("load") =>
          /\ IF resp'.arg.tracked = "ok"
             THEN KeepsGoodLines(trackedEmails', trackedFile, SentKeys)
             ELSE trackedEmails' = <<>>
          /\ IF resp'.arg.opened = "ok"
             THEN KeepsGoodLines(openedEmails', openedFile, OpenKeys)
             ELSE openedEmails' = <<>>
          /\ UNCHANGED <<trackedFile, openedFile>>
      ]_vars

\* C18 witness: the sent log held two complete lines and the start of a line
\* cut short; the load kept the records of the two complete lines in their
\* order; the open log, which holds a complete line, could not be read and
\* the open view is empty.
C18_Witness ==
    /\ resp.op = "load" /\ resp.arg.tracked = "ok" /\ resp.arg.opened = "err"
    /\ Len(trackedEmails) = 2
    /\ trackedEmails[1].id = "b" /\ trackedEmails[2].id = "a"
    /\ \E i \in DOMAIN Split(trackedFile) :
          LET l == Split(trackedFile)[i]
          IN  l # <<>> /\ l[1] = LBrace /\ ~ParsesOK(l)
    /\ GoodLines(openedFile) # {} /\ openedEmails = <<>>

\* C19, as claimed. Whatever the requests, their interleaving and the
\* failures, the open log never holds two records with the same
\* (trackingId, ipAddress) pair, and the open view, rebuilt from it by a
\* restart or not, holds at most one OpenRecord per pair.
C19_DedupSurvivesRestart ==
    /\ NoDuplicateOpen
    /\ \A i, j \in DOMAIN LoggedOpens :
          (/\ LoggedOpens[i].trackingId = LoggedOpens[j].trackingId
           /\ LoggedOpens[i].ipAddress = LoggedOpens[j].ipAddress) => i = j

\* The distinct ids of the sent view.
SentIds == {trackedEmails[i].id : i \in DOMAIN trackedEmails}

\* C20. In every state of a run without restart, every OpenRecord of the open
\* view has the id of a record of the sent view as its trackingId; hence
\* uniqueOpened is at most the number of distinct ids of the sent view and
\* openRate is at most 100.
C20_ReferentialIntegrity ==
    /\ OpenedIds \subseteq SentIds
    /\ Stats.uniqueOpened <= Cardinality(SentIds)
    /\ Stats.uniqueOpened <= Stats.totalTracked
    /\ Stats.openRate.hundredths <= 100 * 100

\* C20 witness: while a clearAll is still truncating, an id has been sent and
\* opened since its reset of the views; the sent log holds more records than
\* the sent view, and openRate is "100.00".
C20_Witness ==
    /\ \E r \in Slots : reqs[r].op = "clear" /\ reqs[r].pc = "truncate1"
    /\ Cardinality(SentIds) = 1
    /\ OpenedIds = SentIds
    /\ Len(LoggedSent) > Len(trackedEmails)
    /\ Stats.openRate = [kind |-> "string", hundredths |-> 10000]

====
